---------------------------- MODULE Spec2Model ----------------------------
(***************************************************************************)
(* A model of include/print.h (MitalAshok/print): the Python-like          *)
(* print(args..., sep=, end=, file=, flush=) of C++.                       *)
(*                                                                         *)
(* One call of print / raw_print / print_no_end is followed through        *)
(* print_impl_3 (the fold of the option arguments into a print_options     *)
(* record), the recursion of print_impl over the argument pack (one        *)
(* action per overload), print_end_impl and print_flush.  What the         *)
(* compiler decides from types (overload selection, static_assert) is      *)
(* decided here from the kind of each argument.                            *)
(***************************************************************************)
EXTENDS Naturals, Sequences, FiniteSets

\* ------------------------------------------------------------------------
\* Bounds of the model
\* ------------------------------------------------------------------------

\* the longest argument list of a call made of arguments of any kind
MaxArgs == 3

\* the longest argument list of a call made of values and Sentinels alone
MaxPositional == 5

\* the most values and Sentinels in a call with values that print nothing
MaxBody == 3

\* the longest argument list of a call in a series of calls, its arguments
\* of any kind
MaxSeriesArgs == 1

\* ------------------------------------------------------------------------
\* Values, channels and arguments
\* ------------------------------------------------------------------------

\* the value of type print_nothing_t (the Sentinel)
print_nothing == "print_nothing"

\* print's defaults: print_impl_3<Flusher, char, char>(' ', '\n', ...)
DefaultSep == " "
DefaultEnd == "\n"

\* ordinary printable values handed to a call
Values == {"a", "b"}

\* values bound with sep=... and end=...
SepValues == {"+", print_nothing}
EndValues == {"!", print_nothing}

\* std::cout, and a caller's channel whose operator<< takes any type and
\* which has a flush() member (void_stream_t of the tests)
Channels == {"cout", "custom"}
BoundChannels == {"custom"}

\* static_cast<bool>(value) of flush_t::operator=
ToBool(v) == v = "true"

\* One argument of a call: its kind k (the C++ type, up to cv and reference)
\* and its value v.
\*   value            ordinary data
\*   print_nothing_t  the Sentinel
\*   sep_value, end_value, file_value, flush_value   tag = value
\*   sep_t, end_t, file_t, flush_t                   a bare tag
ArgAlphabet ==
       { [k |-> "value", v |-> x] : x \in Values }
  \cup { [k |-> "print_nothing_t", v |-> print_nothing] }
  \cup { [k |-> "sep_value", v |-> x] : x \in SepValues }
  \cup { [k |-> "end_value", v |-> x] : x \in EndValues }
  \cup { [k |-> "file_value", v |-> x] : x \in BoundChannels }
  \cup { [k |-> "flush_value", v |-> x] : x \in {"true", "false"} }
  \cup { [k |-> t, v |-> t] : t \in {"sep_t", "end_t", "file_t", "flush_t"} }

\* the arguments that are no options and that every channel can take
PositionalAlphabet ==
       { [k |-> "value", v |-> x] : x \in Values }
  \cup { [k |-> "print_nothing_t", v |-> print_nothing] }

\* the argument lists of the calls: every list of up to MaxArgs arguments,
\* and every list of up to MaxPositional values and Sentinels
ArgLists ==
       UNION { [1..n -> ArgAlphabet] : n \in 0..MaxArgs }
  \cup UNION { [1..n -> PositionalAlphabet] : n \in 0..MaxPositional }

\* the argument lists of the calls of a series of calls: every list of up
\* to MaxSeriesArgs arguments, and every list of one value more
SeriesArgLists ==
       UNION { [1..n -> ArgAlphabet] : n \in 0..MaxSeriesArgs }
  \cup [1..(MaxSeriesArgs + 1) -> { [k |-> "value", v |-> x] : x \in Values }]

\* the empty string: a value whose operator<< puts no character
EmptyString == ""

\* what stands before the options in a call with empty strings: values, the
\* empty string among them, and Sentinels
BodyAlphabet ==
       { [k |-> "value", v |-> x] : x \in Values \cup {EmptyString} }
  \cup { [k |-> "print_nothing_t", v |-> print_nothing] }

\* the options such a call ends with
OptionTails ==
  { <<>>,
    <<[k |-> "end_value", v |-> EmptyString], [k |-> "sep_value", v |-> "+"]>>,
    <<[k |-> "flush_t", v |-> "flush_t"]>>,
    <<[k |-> "flush_value", v |-> "false"], [k |-> "file_value", v |-> "custom"]>> }

\* the argument lists of the calls with empty strings
EmptyArgLists ==
  { body \o tail : body \in UNION { [1..n -> BodyAlphabet] : n \in 0..MaxBody },
                   tail \in OptionTails }

Entries == {"print", "raw_print", "print_no_end"}
Flushers == {"print_flusher", "flush_twice"}

\* ------------------------------------------------------------------------
\* print_manipulated: the compile-time bitset of the slots already bound
\* ------------------------------------------------------------------------

pm_none == 0
pm_sep == 1
pm_end == 2
pm_file == 4
pm_flush == 8

\* operator&(print_manipulated, print_manipulated): is the bit raised
pm_and(lhs, rhs) == (lhs \div rhs) % 2 = 1

\* operator|(print_manipulated, print_manipulated), rhs a single bit
pm_or(lhs, rhs) == IF pm_and(lhs, rhs) THEN lhs ELSE lhs + rhs

VARIABLES entry, Flusher, args, pc, opts, i, PrintSep, log, flusherCalls,
          file_noexcept, declared, exception, previous

\* what surrounds the running call: file_noexcept, the operations of the
\* caller's channel type that are declared noexcept; declared, the value of
\* noexcept(call) once the operator has been applied; exception, what a
\* channel has thrown; previous, the record of the call made before
outside == <<file_noexcept, declared, exception, previous>>

vars == <<entry, Flusher, args, pc, opts, i, PrintSep, log, flusherCalls, outside>>


\* ------------------------------------------------------------------------
\* print_options and its operator+
\* ------------------------------------------------------------------------

\* print_options(sep_, end_, file_, flush_) with Manipulated = none.
\* ill_formed records that a static_assert of operator+ has fired for the
\* call: the program does not build.
print_options(sep_, end_, file_, flush_) ==
  [sep |-> sep_, end |-> end_, file |-> file_, flush |-> flush_,
   Manipulated |-> pm_none, ill_formed |-> FALSE]

set_sep(o) == pm_and(o.Manipulated, pm_sep)
set_end(o) == pm_and(o.Manipulated, pm_end)
set_file(o) == pm_and(o.Manipulated, pm_file)
set_flush(o) == pm_and(o.Manipulated, pm_flush)

\* operator+(const sep_t::value_t<T>&)
plus_sep_value(o, new_sep) ==
  [o EXCEPT !.sep = new_sep,
            !.Manipulated = pm_or(o.Manipulated, pm_sep),
            !.ill_formed = o.ill_formed \/ set_sep(o)]

\* operator+ for end_t::value_t as it would be if it forwarded the old end
plus_end_value_unbound(o, new_end) ==
  [o EXCEPT !.Manipulated = pm_or(o.Manipulated, pm_end),
            !.ill_formed = o.ill_formed \/ set_end(o)]

\* operator+(const end_t::value_t<T>&)
plus_end_value(o, new_end) ==
  [o EXCEPT !.end = new_end,
            !.Manipulated = pm_or(o.Manipulated, pm_end),
            !.ill_formed = o.ill_formed \/ set_end(o)]

\* operator+ for file_t::value_t as it would be if it forwarded the old file
plus_file_value_unbound(o, new_file) ==
  [o EXCEPT !.Manipulated = pm_or(o.Manipulated, pm_file),
            !.ill_formed = o.ill_formed \/ set_file(o)]

\* operator+(const file_t::value_t<T>&)
plus_file_value(o, new_file) ==
  [o EXCEPT !.file = new_file,
            !.Manipulated = pm_or(o.Manipulated, pm_file),
            !.ill_formed = o.ill_formed \/ set_file(o)]

\* operator+ for flush_t::value_t as it would be if its result type named
\* print_manipulated::flush in place of Manipulated | print_manipulated::flush
plus_flush_value_forgets(o, new_flush) ==
  [o EXCEPT !.flush = new_flush,
            !.Manipulated = pm_flush,
            !.ill_formed = o.ill_formed \/ set_flush(o)]

\* operator+(const flush_t::value_t&)
plus_flush_value(o, new_flush) ==
  [o EXCEPT !.flush = new_flush,
            !.Manipulated = pm_or(o.Manipulated, pm_flush),
            !.ill_formed = o.ill_formed \/ set_flush(o)]

\* operator+ for a bare sep_t as it would be if it kept the separator
plus_sep_t_kept(o) == plus_sep_value(o, o.sep)

\* operator+(const sep_t&): return *this + (sep_t()=T()), T = print_nothing_t
plus_sep_t(o) == plus_sep_value(o, print_nothing)

\* operator+ for a bare end_t as it would be if its result type kept
\* Manipulated as it was
plus_end_t_unmarked(o) == [o EXCEPT !.end = print_nothing]

\* operator+(const end_t&): return *this + (end_t()=T()), T = print_nothing_t
plus_end_t(o) == plus_end_value(o, print_nothing)

\* operator+ for a bare flush_t as it would be without its static_assert
plus_flush_t_unchecked(o) ==
  [o EXCEPT !.flush = TRUE,
            !.Manipulated = pm_or(o.Manipulated, pm_flush)]

\* operator+ for a bare flush_t as it would be if it forwarded flush
plus_flush_t_keeps_flag(o) ==
  [o EXCEPT !.Manipulated = pm_or(o.Manipulated, pm_flush),
            !.ill_formed = o.ill_formed \/ set_flush(o)]

\* operator+(const flush_t&): its own static_assert, flush = true
plus_flush_t(o) ==
  [o EXCEPT !.flush = TRUE,
            !.Manipulated = pm_or(o.Manipulated, pm_flush),
            !.ill_formed = o.ill_formed \/ set_flush(o)]

\* operator+(const T&): anything else leaves the record as it is
plus_other(o) == o

\* opts + arg: the overload the argument's type selects.  A bare file_t has
\* no overload of its own and takes the generic one.
plus(o, arg) ==
  CASE arg.k = "sep_value" -> plus_sep_value(o, arg.v)
    [] arg.k = "end_value" -> plus_end_value(o, arg.v)
    [] arg.k = "file_value" -> plus_file_value(o, arg.v)
    [] arg.k = "flush_value" -> plus_flush_value(o, ToBool(arg.v))
    [] arg.k = "sep_t" -> plus_sep_t(o)
    [] arg.k = "end_t" -> plus_end_t(o)
    [] arg.k = "flush_t" -> plus_flush_t(o)
    [] OTHER -> plus_other(o)

\* combine_options(opts, args...): the left fold (opts + ... + args)
RECURSIVE combine_options(_, _)
combine_options(o, as) ==
  IF as = <<>> THEN o ELSE combine_options(plus(o, Head(as)), Tail(as))

\* ------------------------------------------------------------------------
\* The classifier of arguments
\* ------------------------------------------------------------------------

\* is_print_opt_value as it would be without the specialisation for flush_t
is_print_opt_value_no_flush_t(arg) ==
  arg.k \in {"sep_value", "end_value", "file_value", "flush_value",
             "sep_t", "end_t"}

\* is_print_opt_value<T>: the four value_t and the bare sep_t, end_t, flush_t
is_print_opt_value(arg) ==
  arg.k \in {"sep_value", "end_value", "file_value", "flush_value",
             "sep_t", "end_t", "flush_t"}

\* is_print_nothing_arg as it would be if a value that prints nothing were
\* taken for print_nothing
is_print_nothing_arg_or_empty(arg) == arg.k = "print_nothing_t" \/ arg.v = ""

\* is_fwd_same<T, print_nothing_t>, of an argument and of a bound value
is_print_nothing_arg(arg) == arg.k = "print_nothing_t"
is_print_nothing(v) == v = print_nothing

\* neither an option nor print_nothing: the argument goes to operator<<
is_printed(arg) == ~is_print_opt_value(arg) /\ ~is_print_nothing_arg(arg)

\* print_can_possibly_flush<Args...>
print_can_possibly_flush(as) ==
  \E n \in 1..Len(as) : as[n].k \in {"flush_value", "flush_t"}

\* print_will_always_flush<Args...>
print_will_always_flush(as) ==
  \E n \in 1..Len(as) : as[n].k = "flush_t"

\* ------------------------------------------------------------------------
\* The channel
\* ------------------------------------------------------------------------

\* one call of the channel's operator<< (op = "write") or of its flush()
\* (op = "flush").  role and idx say which step of the call made it: the
\* write of argument idx ("arg"), of the separator before argument idx
\* ("sep"), of the terminator ("end"), or the flush.
WriteEvent(ch, role_, val, idx_) ==
  [ch |-> ch, op |-> "write", val |-> val, role |-> role_, idx |-> idx_]

FlushEvent(ch) ==
  [ch |-> ch, op |-> "flush", val |-> "", role |-> "flush", idx |-> 0]

\* does `file << arg` compile: std::ostream has no operator<< for file_t,
\* the caller's channel takes any type, not_a_stream_t has no operator<<
can_write(ch, arg) == ch = "custom" \/ (ch = "cout" /\ arg.k # "file_t")

\* does `file << end` compile, for a terminator of a built-in type
can_write_end(ch) == ch # "not_a_stream"

\* does f.flush() compile: not_a_stream_t has no flush()
has_flush(ch) == ch # "not_a_stream"

\* PrintTest: neither operator<< nor flush() is declared noexcept
PrintTest_noexcept == {}

\* void_stream_t: operator<< of every type and flush() are declared noexcept
void_stream_t_noexcept == {"char", "string", "print_nothing_t", "file_t", "flush"}

\* the channel types a caller binds, each by the set of its operations that
\* are declared noexcept: the operator<< of a type, flush().  Besides the
\* two of the tests, one whose operator<< is noexcept for strings alone
\* (print_nothing_t falls to the friend operator<< of print_nothing_t) and
\* one whose operator<< is noexcept for characters alone
NoexceptChannels ==
  { PrintTest_noexcept,
    void_stream_t_noexcept,
    {"string", "print_nothing_t", "flush"},
    {"char", "print_nothing_t"} }

\* the type of a value handed to operator<<
type_of(v) ==
  CASE v = print_nothing -> "print_nothing_t"
    [] v \in {DefaultSep, DefaultEnd} -> "char"
    [] v = "file_t" -> "file_t"
    [] OTHER -> "string"

\* noexcept(file << v).  std::ostream declares no operator<< noexcept; for
\* print_nothing_t it takes the friend operator<< of print_nothing_t, which
\* is noexcept.  nx is the set of the caller's channel type.
write_noexcept(nx, f, v) ==
  IF f = "cout" THEN type_of(v) = "print_nothing_t" ELSE type_of(v) \in nx

\* Flusher{}(f): print_flusher calls f.flush(), flush_twice calls it twice,
\* dont_flush does nothing
flusher_call(F, ch) ==
  CASE F = "flush_twice" -> <<FlushEvent(ch), FlushEvent(ch)>>
    [] F = "dont_flush" -> <<>>
    [] OTHER -> <<FlushEvent(ch)>>

\* does Flusher{}(f) compile: print_flusher and flush_twice call f.flush(),
\* dont_flush takes anything
flusher_applies(F, ch) == F = "dont_flush" \/ has_flush(ch)

\* noexcept(Flusher{}(f)): print_flusher is noexcept(noexcept(os.flush())),
\* dont_flush is noexcept, flush_twice has no exception specification
flusher_noexcept(nx, F, f) ==
  \/ F = "dont_flush"
  \/ F = "print_flusher" /\ f = "custom" /\ "flush" \in nx

\* ------------------------------------------------------------------------
\* Entry points
\* ------------------------------------------------------------------------

\* default_end as it would be if print passed print_nothing_t like the others
default_end_none(e) == print_nothing

\* default_sep as it would be if raw_print passed ' ' like the others
default_sep_space(e) == DefaultSep

\* the defaults an entry point hands to print_impl_3
default_sep(e) == IF e = "raw_print" THEN print_nothing ELSE DefaultSep
default_end(e) == IF e = "print" THEN DefaultEnd ELSE print_nothing

\* initial_options as it would be if a print_nothing_t default counted as a
\* slot already set
initial_options_marks_defaults(e) ==
  [print_options(default_sep(e), default_end(e), "cout", FALSE)
     EXCEPT !.Manipulated = IF e = "raw_print" THEN pm_sep + pm_end
                            ELSE IF e = "print_no_end" THEN pm_end
                            ELSE pm_none]

\* print_options<const SepT&, const EndT&, std::ostream&>(default_sep,
\* default_end, std::cout, false)
initial_options(e) == print_options(default_sep(e), default_end(e), "cout", FALSE)

\* does the call build: no static_assert fired in the fold, and every
\* argument print_impl hands to operator<< can be written to the channel
well_formed(o, as) ==
  /\ ~o.ill_formed
  /\ \A n \in 1..Len(as) : is_printed(as[n]) => can_write(o.file, as[n])

\* does print_impl_2<Flusher>(opts, args...) build: the call is well formed,
\* print_end_impl can write a terminator that is not print_nothing_t, and
\* the print_flush overloads that name Flusher{}(f), selected when an
\* argument is flush_t or flush_t::value_t, can call it
builds(F, o, as) ==
  /\ well_formed(o, as)
  /\ ~is_print_nothing(o.end) => can_write_end(o.file)
  /\ print_can_possibly_flush(as) => flusher_applies(F, o.file)

\* ------------------------------------------------------------------------
\* print_impl, print_end_impl, print_flush as functions of their arguments
\* ------------------------------------------------------------------------

\* Each overload of print_impl<PrintSep>(opts, arg, args...) handles the
\* first argument of the pack and recurses with a new PrintSep: out is what
\* it sends to the channel, PrintSep the template argument of the recursion.

\* print_impl_option as it would be if it recursed with print_impl<false>
print_impl_option_resets(PS, o, arg, idx_) == [out |-> <<>>, PrintSep |-> FALSE]

\* is_fwd_print_opt_value<Arg>: "arg is a print option; ignore"
print_impl_option(PS, o, arg, idx_) == [out |-> <<>>, PrintSep |-> PS]

\* print_impl_nothing as it would be if it recursed with print_impl<PrintSep>
print_impl_nothing_keeps_state(PS, o, arg, idx_) == [out |-> <<>>, PrintSep |-> PS]

\* is_fwd_same<Arg, print_nothing_t>: recurse with print_impl<false>
print_impl_nothing(PS, o, arg, idx_) == [out |-> <<>>, PrintSep |-> FALSE]

\* print_impl_value as it would be if the !PrintSep overload wrote the
\* separator too
print_impl_value_with_sep(PS, o, arg, idx_) ==
  [out |-> <<WriteEvent(o.file, "sep", o.sep, idx_),
             WriteEvent(o.file, "arg", arg.v, idx_)>>,
   PrintSep |-> TRUE]

\* !PrintSep: print just the value
print_impl_value(PS, o, arg, idx_) ==
  [out |-> <<WriteEvent(o.file, "arg", arg.v, idx_)>>, PrintSep |-> TRUE]

\* PrintSep and sep is not print_nothing_t: the separator, then the value
print_impl_sep_value(PS, o, arg, idx_) ==
  [out |-> <<WriteEvent(o.file, "sep", o.sep, idx_),
             WriteEvent(o.file, "arg", arg.v, idx_)>>,
   PrintSep |-> TRUE]

\* print_impl_nosep_value as it would be if it left out the value with the
\* separator
print_impl_nosep_value_dropped(PS, o, arg, idx_) == [out |-> <<>>, PrintSep |-> TRUE]

\* PrintSep and sep is print_nothing_t: the value alone
print_impl_nosep_value(PS, o, arg, idx_) ==
  [out |-> <<WriteEvent(o.file, "arg", arg.v, idx_)>>, PrintSep |-> TRUE]

\* the overload the enable_if conditions select for (PrintSep, Arg, sep)
print_impl_arg(PS, o, arg, idx_) ==
  CASE is_print_opt_value(arg) -> print_impl_option(PS, o, arg, idx_)
    [] is_print_nothing_arg(arg) -> print_impl_nothing(PS, o, arg, idx_)
    [] is_printed(arg) /\ ~PS -> print_impl_value(PS, o, arg, idx_)
    [] is_printed(arg) /\ PS /\ ~is_print_nothing(o.sep) ->
         print_impl_sep_value(PS, o, arg, idx_)
    [] is_printed(arg) /\ PS /\ is_print_nothing(o.sep) ->
         print_impl_nosep_value(PS, o, arg, idx_)

\* print_impl<PrintSep>(opts, args...): everything the recursion over the
\* pack sends to the channel; idx_ is the position of Head(as) in the call
RECURSIVE print_impl(_, _, _, _)
print_impl(PS, o, as, idx_) ==
  IF as = <<>> THEN <<>>
  ELSE LET r == print_impl_arg(PS, o, Head(as), idx_)
       IN  r.out \o print_impl(r.PrintSep, o, Tail(as), idx_ + 1)

\* print_end_impl as it would be without the print_nothing_t overload
print_end_impl_always(o) == <<WriteEvent(o.file, "end", o.end, 0)>>

\* print_end_impl as it would be if it flushed the channel before it wrote
\* the terminator
print_end_impl_flush_first(o) ==
  IF is_print_nothing(o.end) THEN <<>>
  ELSE <<FlushEvent(o.file), WriteEvent(o.file, "end", o.end, 0)>>

\* print_end_impl(f, end): nothing at all when End is print_nothing_t
print_end_impl(o) ==
  IF is_print_nothing(o.end) THEN <<>>
  ELSE <<WriteEvent(o.file, "end", o.end, 0)>>

\* print_flush as it would be if the CanFlush overload did not read flush
print_flush_ignores_flag(AlwaysFlush, CanFlush, F, flush_, f) ==
  IF CanFlush THEN [out |-> flusher_call(F, f), calls |-> 1]
  ELSE [out |-> <<>>, calls |-> 0]

\* print_flush<AlwaysFlush, CanFlush, Flusher>(flush, f): out is what reaches
\* the channel, calls the number of times Flusher{}(f) is called
print_flush(AlwaysFlush, CanFlush, F, flush_, f) ==
  IF CanFlush /\ AlwaysFlush THEN [out |-> flusher_call(F, f), calls |-> 1]
  ELSE IF CanFlush /\ ~AlwaysFlush /\ flush_
       THEN [out |-> flusher_call(F, f), calls |-> 1]
  ELSE [out |-> <<>>, calls |-> 0]

\* print_impl_2<Flusher>(opts, args...): print_impl<false>, print_end_impl,
\* print_flush, in this order
print_impl_2(F, o, as) ==
  LET fl == print_flush(print_will_always_flush(as),
                        print_can_possibly_flush(as), F, o.flush, o.file)
  IN  [log |-> print_impl(FALSE, o, as, 1) \o print_end_impl(o) \o fl.out,
       flusherCalls |-> fl.calls]

\* print_impl_3<Flusher>(default_sep, default_end, args...), for the entry
\* point e: the whole call.  A call that does not build does nothing.
print_impl_3(F, e, as) ==
  LET o == combine_options(initial_options(e), as)
      r == print_impl_2(F, o, as)
  IN  IF builds(F, o, as)
      THEN [status |-> "done", opts |-> o, log |-> r.log,
            flusherCalls |-> r.flusherCalls]
      ELSE [status |-> "rejected", opts |-> o, log |-> <<>>, flusherCalls |-> 0]

\* ------------------------------------------------------------------------
\* The exception specification of the call
\* ------------------------------------------------------------------------

\* print_impl(const PrintOptionsT&) as it would be without its noexcept
print_impl_empty_unspecified == FALSE

\* print_impl(const PrintOptionsT&) noexcept
print_impl_empty_noexcept == TRUE

\* noexcept(print_impl<PrintSep>(opts, args...)): each overload's noexcept
\* specification.  Both PrintSep overloads for a printed argument name
\* opts.file << opts.sep, whether sep is print_nothing_t or not.
RECURSIVE print_impl_noexcept(_, _, _, _)
print_impl_noexcept(nx, PS, o, as) ==
  IF as = <<>> THEN print_impl_empty_noexcept
  ELSE LET arg == Head(as)
           rest(ps) == print_impl_noexcept(nx, ps, o, Tail(as))
       IN  CASE is_print_opt_value(arg) -> rest(PS)
             [] is_print_nothing_arg(arg) -> rest(FALSE)
             [] is_printed(arg) /\ ~PS ->
                  write_noexcept(nx, o.file, arg.v) /\ rest(TRUE)
             [] is_printed(arg) /\ PS ->
                  /\ write_noexcept(nx, o.file, o.sep)
                  /\ write_noexcept(nx, o.file, arg.v)
                  /\ rest(TRUE)

\* is_end_noexcept<Opts>: true_type when end is print_nothing_t
is_end_noexcept(nx, o) ==
  IF is_print_nothing(o.end) THEN TRUE ELSE write_noexcept(nx, o.file, o.end)

\* is_flush_noexcept as it would be without the specialisation for false
is_flush_noexcept_unspecialised(nx, F, o, can_flush) == flusher_noexcept(nx, F, o.file)

\* is_flush_noexcept<Flusher, Opts, can_flush>: true_type when can_flush is
\* false
is_flush_noexcept(nx, F, o, can_flush) ==
  IF can_flush THEN flusher_noexcept(nx, F, o.file) ELSE TRUE

\* the noexcept specification of print_impl_2
print_impl_2_noexcept(nx, F, o, as) ==
  /\ print_impl_noexcept(nx, FALSE, o, as)
  /\ is_end_noexcept(nx, o)
  /\ is_flush_noexcept(nx, F, o, print_can_possibly_flush(as))

\* noexcept(print_impl_3<Flusher>(default_sep, default_end, args...)), and so
\* noexcept of the entry point e: the operand has to build
print_impl_3_noexcept(nx, F, e, as) ==
  LET o == combine_options(initial_options(e), as)
  IN  IF ~builds(F, o, as) THEN "ill_formed"
      ELSE IF print_impl_2_noexcept(nx, F, o, as) THEN "true" ELSE "false"

\* ------------------------------------------------------------------------
\* The call, step by step
\* ------------------------------------------------------------------------

\* A call has been written: an entry point, a flush strategy, arguments.
\* opts is the record print_impl_3 builds from the entry point's defaults.
Init ==
  /\ entry \in Entries
  /\ Flusher \in Flushers
  /\ args \in ArgLists
  /\ pc = "print_impl_3"
  /\ opts = initial_options(entry)
  /\ i = 1
  /\ PrintSep = FALSE
  /\ log = <<>>
  /\ flusherCalls = 0
  /\ file_noexcept = PrintTest_noexcept
  /\ declared = "unevaluated"
  /\ exception = <<>>
  /\ previous = <<>>

\* print_impl_3: combine_options folds all the arguments into the record
\* before print_impl_2 is entered.  A call that does not build goes nowhere.
CombineOptions ==
  /\ pc = "print_impl_3"
  /\ opts' = combine_options(opts, args)
  /\ pc' = IF builds(Flusher, opts', args) THEN "print_impl" ELSE "rejected"
  /\ UNCHANGED <<entry, Flusher, args, i, PrintSep, log, flusherCalls, outside>>

\* what one step of the recursion does to the state
PrintImplStep(r) ==
  /\ log' = log \o r.out
  /\ PrintSep' = r.PrintSep
  /\ i' = i + 1
  /\ UNCHANGED <<entry, Flusher, args, pc, opts, flusherCalls, outside>>

AtArg == pc = "print_impl" /\ i <= Len(args)

\* print_impl, Arg a print option
PrintImplOption ==
  /\ AtArg
  /\ is_print_opt_value(args[i])
  /\ PrintImplStep(print_impl_option(PrintSep, opts, args[i], i))

\* print_impl, Arg print_nothing_t
PrintImplNothing ==
  /\ AtArg
  /\ is_print_nothing_arg(args[i])
  /\ PrintImplStep(print_impl_nothing(PrintSep, opts, args[i], i))

\* print_impl, !PrintSep
PrintImplValue ==
  /\ AtArg
  /\ ~PrintSep /\ is_printed(args[i])
  /\ PrintImplStep(print_impl_value(PrintSep, opts, args[i], i))

\* print_impl, PrintSep, sep not print_nothing_t
PrintImplSepValue ==
  /\ AtArg
  /\ PrintSep /\ is_printed(args[i]) /\ ~is_print_nothing(opts.sep)
  /\ PrintImplStep(print_impl_sep_value(PrintSep, opts, args[i], i))

\* print_impl, PrintSep, sep print_nothing_t
PrintImplNoSepValue ==
  /\ AtArg
  /\ PrintSep /\ is_printed(args[i]) /\ is_print_nothing(opts.sep)
  /\ PrintImplStep(print_impl_nosep_value(PrintSep, opts, args[i], i))

\* print_impl(const PrintOptionsT&): the pack is empty
PrintImplEmpty ==
  /\ pc = "print_impl" /\ i > Len(args)
  /\ pc' = "print_end_impl"
  /\ UNCHANGED <<entry, Flusher, args, opts, i, PrintSep, log, flusherCalls, outside>>

\* print_end_impl, End not print_nothing_t
PrintEndImpl ==
  /\ pc = "print_end_impl"
  /\ ~is_print_nothing(opts.end)
  /\ log' = log \o print_end_impl(opts)
  /\ pc' = "print_flush"
  /\ UNCHANGED <<entry, Flusher, args, opts, i, PrintSep, flusherCalls, outside>>

\* print_end_impl, End print_nothing_t
PrintEndNothing ==
  /\ pc = "print_end_impl"
  /\ is_print_nothing(opts.end)
  /\ log' = log \o print_end_impl(opts)
  /\ pc' = "print_flush"
  /\ UNCHANGED <<entry, Flusher, args, opts, i, PrintSep, flusherCalls, outside>>

\* what print_flush does to the state
PrintFlushStep(r) ==
  /\ log' = log \o r.out
  /\ flusherCalls' = flusherCalls + r.calls
  /\ pc' = "done"
  /\ UNCHANGED <<entry, Flusher, args, opts, i, PrintSep, outside>>

FlushResult ==
  print_flush(print_will_always_flush(args), print_can_possibly_flush(args),
              Flusher, opts.flush, opts.file)

\* print_flush, CanFlush && AlwaysFlush
PrintFlushAlways ==
  /\ pc = "print_flush"
  /\ print_can_possibly_flush(args) /\ print_will_always_flush(args)
  /\ PrintFlushStep(FlushResult)

\* print_flush, CanFlush && !AlwaysFlush
PrintFlushIfSet ==
  /\ pc = "print_flush"
  /\ print_can_possibly_flush(args) /\ ~print_will_always_flush(args)
  /\ PrintFlushStep(FlushResult)

\* print_flush, !CanFlush && !AlwaysFlush
PrintFlushNever ==
  /\ pc = "print_flush"
  /\ ~print_can_possibly_flush(args) /\ ~print_will_always_flush(args)
  /\ PrintFlushStep(FlushResult)

Next ==
  \/ CombineOptions
  \/ PrintImplOption
  \/ PrintImplNothing
  \/ PrintImplValue
  \/ PrintImplSepValue
  \/ PrintImplNoSepValue
  \/ PrintImplEmpty
  \/ PrintEndImpl
  \/ PrintEndNothing
  \/ PrintFlushAlways
  \/ PrintFlushIfSet
  \/ PrintFlushNever

Spec == Init /\ [][Next]_vars

\* ------------------------------------------------------------------------
\* Calls with values that print nothing
\* ------------------------------------------------------------------------

\* A call has been written whose values may be the empty string.
InitEmpty ==
  /\ entry \in Entries
  /\ Flusher \in Flushers
  /\ args \in EmptyArgLists
  /\ pc = "print_impl_3"
  /\ opts = initial_options(entry)
  /\ i = 1
  /\ PrintSep = FALSE
  /\ log = <<>>
  /\ flusherCalls = 0
  /\ file_noexcept = PrintTest_noexcept
  /\ declared = "unevaluated"
  /\ exception = <<>>
  /\ previous = <<>>

SpecEmpty == InitEmpty /\ [][Next]_vars

\* ------------------------------------------------------------------------
\* The noexcept operator applied to a call
\* ------------------------------------------------------------------------

\* the flush strategies of the tests
NoexceptFlushers == Flushers \cup {"dont_flush"}

\* what the calls on a channel that may lack operator<< and flush() are
\* made of
StreamAlphabet ==
  { [k |-> "value", v |-> "a"],
    [k |-> "print_nothing_t", v |-> print_nothing],
    [k |-> "end_t", v |-> "end_t"],
    [k |-> "file_value", v |-> "custom"],
    [k |-> "file_value", v |-> "not_a_stream"],
    [k |-> "flush_value", v |-> "true"],
    [k |-> "flush_value", v |-> "false"],
    [k |-> "flush_t", v |-> "flush_t"] }

StreamArgLists == UNION { [1..n -> StreamAlphabet] : n \in 0..MaxArgs }

\* A call has been written whose channel may be not_a_stream and whose
\* flush strategy may be dont_flush.
InitStreams ==
  /\ entry \in Entries
  /\ Flusher \in NoexceptFlushers
  /\ args \in StreamArgLists
  /\ pc = "print_impl_3"
  /\ opts = initial_options(entry)
  /\ i = 1
  /\ PrintSep = FALSE
  /\ log = <<>>
  /\ flusherCalls = 0
  /\ file_noexcept = PrintTest_noexcept
  /\ declared = "unevaluated"
  /\ exception = <<>>
  /\ previous = <<>>

SpecStreams == InitStreams /\ [][Next]_vars

\* A call has been written as the operand of noexcept; the channel the
\* caller binds is of any of the channel types.
InitNoexcept ==
  /\ entry \in Entries
  /\ Flusher \in NoexceptFlushers
  /\ args \in ArgLists
  /\ pc = "print_impl_3"
  /\ opts = initial_options(entry)
  /\ i = 1
  /\ PrintSep = FALSE
  /\ log = <<>>
  /\ flusherCalls = 0
  /\ file_noexcept \in NoexceptChannels
  /\ declared = "unevaluated"
  /\ exception = <<>>
  /\ previous = <<>>

\* noexcept(print(args...)): the operand is not evaluated
NoexceptOperator ==
  /\ pc = "print_impl_3"
  /\ declared = "unevaluated"
  /\ declared' = print_impl_3_noexcept(file_noexcept, Flusher, entry, args)
  /\ UNCHANGED <<entry, Flusher, args, pc, opts, i, PrintSep, log, flusherCalls,
                 file_noexcept, exception, previous>>

NextNoexcept == NoexceptOperator

SpecNoexcept == InitNoexcept /\ [][NextNoexcept]_vars

\* ------------------------------------------------------------------------
\* A channel that throws
\* ------------------------------------------------------------------------

\* throw_from as it would be if the statements after the failing operator<<
\* of the overload still ran
throw_from_runs_on(out, n) ==
  /\ log' = log \o SubSeq(out, 1, n - 1) \o SubSeq(out, n + 1, Len(out))
  /\ exception' = <<out[n]>>
  /\ pc' = "thrown"
  /\ UNCHANGED <<entry, Flusher, args, opts, i, PrintSep, flusherCalls,
                 file_noexcept, declared, previous>>

\* The n-th operator<< of the statements out of an overload throws.  No
\* function of print.h has a handler: the writes before it have been made,
\* the exception leaves print_impl, print_impl_2, print_impl_3 and the
\* entry point, and the caller has it.
throw_from(out, n) ==
  /\ log' = log \o SubSeq(out, 1, n - 1)
  /\ exception' = <<out[n]>>
  /\ pc' = "thrown"
  /\ UNCHANGED <<entry, Flusher, args, opts, i, PrintSep, flusherCalls,
                 file_noexcept, declared, previous>>

\* print_impl: opts.file << opts.sep or opts.file << arg throws
PrintImplThrows ==
  /\ AtArg
  /\ LET r == print_impl_arg(PrintSep, opts, args[i], i)
     IN  \E n \in 1..Len(r.out) : throw_from(r.out, n)

\* print_end_impl: f << end throws
PrintEndImplThrows ==
  /\ pc = "print_end_impl"
  /\ \E n \in 1..Len(print_end_impl(opts)) : throw_from(print_end_impl(opts), n)

NextFailure ==
  \/ Next
  \/ PrintImplThrows
  \/ PrintEndImplThrows

SpecFailure == Init /\ [][NextFailure]_vars

\* ------------------------------------------------------------------------
\* One call after another
\* ------------------------------------------------------------------------

\* options_of_call as it would be if the record outlived the call
options_of_call_kept(e, last) ==
  [last EXCEPT !.Manipulated = pm_none, !.ill_formed = FALSE]

\* print_impl_3 builds the record of a call from the defaults it is handed
\* and std::cout, false, whatever record the call before has ended with
options_of_call(e, last) == initial_options(e)

\* The call has returned and the program makes its next call, of any entry
\* point on any arguments.  log starts again: it is the log of one call.
\* previous keeps what the record of the call that returned held.
NextCall ==
  /\ pc = "done"
  /\ entry' \in Entries
  /\ args' \in SeriesArgLists
  /\ opts' = options_of_call(entry', opts)
  /\ previous' = <<[sep |-> opts.sep, end |-> opts.end,
                    file |-> opts.file, flush |-> opts.flush]>>
  /\ pc' = "print_impl_3"
  /\ i' = 1
  /\ PrintSep' = FALSE
  /\ log' = <<>>
  /\ flusherCalls' = 0
  /\ UNCHANGED <<Flusher, file_noexcept, declared, exception>>

\* The first call of a series has been written.
InitCalls ==
  /\ entry \in Entries
  /\ Flusher \in Flushers
  /\ args \in SeriesArgLists
  /\ pc = "print_impl_3"
  /\ opts = initial_options(entry)
  /\ i = 1
  /\ PrintSep = FALSE
  /\ log = <<>>
  /\ flusherCalls = 0
  /\ file_noexcept = PrintTest_noexcept
  /\ declared = "unevaluated"
  /\ exception = <<>>
  /\ previous = <<>>

NextCalls ==
  \/ Next
  \/ NextCall

SpecCalls == InitCalls /\ [][NextCalls]_vars

\* ------------------------------------------------------------------------
\* The state, and the step-by-step call against the function
\* ------------------------------------------------------------------------

TypeOK ==
  /\ entry \in Entries
  /\ Flusher \in Flushers
  /\ args \in ArgLists
  /\ pc \in {"print_impl_3", "print_impl", "print_end_impl", "print_flush",
             "done", "rejected"}
  /\ i \in 1..(Len(args) + 1)
  /\ PrintSep \in BOOLEAN
  /\ flusherCalls \in 0..1
  /\ opts.file \in Channels
  /\ opts.flush \in BOOLEAN
  /\ opts.Manipulated \in 0..15

\* a finished call has done what print_impl_3 computes for its arguments
StepsAgreeWithFunction ==
  pc \in {"done", "rejected"} =>
    LET r == print_impl_3(Flusher, entry, args)
    IN  /\ r.status = pc
        /\ r.opts = opts
        /\ r.log = log
        /\ r.flusherCalls = flusherCalls

\* ------------------------------------------------------------------------
\* Vocabulary of the properties
\* ------------------------------------------------------------------------

\* The kinds of argument as the specification names them.
\* A Binding: tag = value, for each of the four tags.
IsBinding(a) == a.k \in {"sep_value", "end_value", "file_value", "flush_value"}

\* A bare tag with a documented default Binding.
IsBareOption(a) == a.k \in {"sep_t", "end_t", "flush_t"}

IsOption(a) == IsBinding(a) \/ IsBareOption(a)

IsSentinel(a) == a.k = "print_nothing_t"

\* Printable data: whatever is neither an option nor the Sentinel.
IsPrintable(a) == ~IsOption(a) /\ ~IsSentinel(a)

\* the positions of the printable arguments of the call, and their number
PrintablePositions == { n \in 1..Len(args) : IsPrintable(args[n]) }

SentinelPositions == { n \in 1..Len(args) : IsSentinel(args[n]) }

\* p and q are consecutive in the printable subsequence
ConsecutivePrintables(p, q) ==
  /\ p \in PrintablePositions /\ q \in PrintablePositions /\ p < q
  /\ \A n \in PrintablePositions : ~(p < n /\ n < q)

\* the events of the log made in a given role
EventsOf(role_) == SelectSeq(log, LAMBDA e : e.role = role_)

\* the writes print_impl made: arguments and separators, before the terminator
BodyEvents == SelectSeq(log, LAMBDA e : e.role \in {"arg", "sep"})

\* what the channels saw: each event without the bookkeeping of the model
Observable(l) == [n \in 1..Len(l) |-> [ch |-> l[n].ch, op |-> l[n].op, val |-> l[n].val]]

Finished == pc = "done"

\* ------------------------------------------------------------------------
\* C1  separator placement
\* ------------------------------------------------------------------------

\* C1: a finished call with k >= 1 printable arguments, no Sentinel among
\* its arguments and a resolved separator that is not the Sentinel wrote
\* exactly k-1 separators: its writes before the terminator alternate
\* argument, separator, argument, ..., argument, beginning and ending with
\* an argument, and every separator written is the resolved separator.
C1_SeparatorPlacement ==
  (/\ Finished
   /\ SentinelPositions = {}
   /\ PrintablePositions # {}
   /\ opts.sep # print_nothing)
  => LET k == Cardinality(PrintablePositions)
         body == BodyEvents
     IN  /\ Len(EventsOf("sep")) = k - 1
         /\ Len(body) = 2 * k - 1
         /\ \A n \in 1..Len(body) :
              /\ body[n].op = "write"
              /\ body[n].role = IF n % 2 = 1 THEN "arg" ELSE "sep"
              /\ body[n].role = "sep" => body[n].val = opts.sep

\* a call of four printable arguments has finished with three separators
C1_Witness ==
  /\ Finished
  /\ SentinelPositions = {}
  /\ Cardinality(PrintablePositions) = 4
  /\ opts.sep = " "
  /\ Len(EventsOf("sep")) = 3

\* ------------------------------------------------------------------------
\* C2  Sentinel suppression
\* ------------------------------------------------------------------------

\* the arguments without the Sentinels that stand before the first or after
\* the last printable argument
InnerSentinelsOnly(as) ==
  LET P == { n \in 1..Len(as) : IsPrintable(as[n]) }
      keep(n) == ~IsSentinel(as[n]) \/ ((\E p \in P : p < n) /\ (\E q \in P : n < q))
      F[n \in 0..Len(as)] ==
        IF n = 0 THEN <<>>
        ELSE IF keep(n) THEN Append(F[n - 1], as[n]) ELSE F[n - 1]
  IN  F[Len(as)]

\* C2: in a finished call whose resolved separator is not the Sentinel, the
\* separator is written before the printable argument q exactly when q has a
\* printable predecessor p and no Sentinel stands between p and q; nothing
\* else is a separator write; and the channels see the same as in the call
\* without the Sentinels before the first and after the last printable.
C2_SentinelSuppression ==
  (Finished /\ opts.sep # print_nothing)
  => /\ \A q \in 1..Len(args) :
          (\E n \in 1..Len(log) : log[n].role = "sep" /\ log[n].idx = q)
          <=> (\E p \in 1..Len(args) :
                 /\ ConsecutivePrintables(p, q)
                 /\ \A n \in SentinelPositions : ~(p < n /\ n < q))
     /\ Len(EventsOf("sep")) =
          Cardinality({ q \in 1..Len(args) :
                          \E n \in 1..Len(log) : log[n].role = "sep" /\ log[n].idx = q })
     /\ Observable(log) =
          Observable(print_impl_3(Flusher, entry, InnerSentinelsOnly(args)).log)

\* a call with a Sentinel first, then three printable arguments with a
\* Sentinel in the first gap and none in the second, has finished: one
\* separator, before the last argument
C2_Witness ==
  /\ Finished
  /\ opts.sep # print_nothing
  /\ Len(args) = 5
  /\ IsSentinel(args[1])
  /\ IsPrintable(args[2]) /\ IsSentinel(args[3])
  /\ IsPrintable(args[4]) /\ IsPrintable(args[5])
  /\ Len(EventsOf("sep")) = 1
  /\ EventsOf("sep")[1].idx = 5

\* ------------------------------------------------------------------------
\* C3  every printable argument once, in order
\* ------------------------------------------------------------------------

\* C3: in a finished call, whatever its arguments, the writes of arguments
\* are, in order, the printable arguments of the call in the order of the
\* call: as many as there are printable arguments, at strictly increasing
\* positions, each the write of the value at its position.
C3_PrintablesOnceInOrder ==
  Finished
  => LET w == EventsOf("arg")
     IN  /\ Len(w) = Cardinality(PrintablePositions)
         /\ \A n \in 1..Len(w) :
              /\ w[n].idx \in PrintablePositions
              /\ w[n].op = "write"
              /\ w[n].val = args[w[n].idx].v
              /\ n > 1 => w[n - 1].idx < w[n].idx

\* a call of "b", a Binding and "a" has finished, the values written in the
\* order of the call
C3_Witness ==
  /\ Finished
  /\ Len(args) = 3
  /\ args[1].v = "b" /\ IsBinding(args[2]) /\ args[3].v = "a"
  /\ Len(EventsOf("arg")) = 2
  /\ EventsOf("arg")[1].val = "b" /\ EventsOf("arg")[2].val = "a"

\* ------------------------------------------------------------------------
\* C4  the Sentinel is never written
\* ------------------------------------------------------------------------

\* C4: at every moment of every call, no write the channel has received is
\* a write of the Sentinel; and a finished call whose separator is the
\* Sentinel made no separator write at all, one whose terminator is the
\* Sentinel no terminator write at all.
C4_SentinelNeverWritten ==
  /\ \A n \in 1..Len(log) : log[n].op = "write" => log[n].val # print_nothing
  /\ (Finished /\ opts.sep = print_nothing) => EventsOf("sep") = <<>>
  /\ (Finished /\ opts.end = print_nothing) => EventsOf("end") = <<>>

\* print_no_end of two printable arguments and sep=Sentinel has finished,
\* the two values its only writes
C4_Witness ==
  /\ Finished
  /\ entry = "print_no_end"
  /\ Cardinality(PrintablePositions) = 2
  /\ \E n \in 1..Len(args) : args[n] = [k |-> "sep_value", v |-> print_nothing]
  /\ opts.end = print_nothing
  /\ Len(log) = 2

\* ------------------------------------------------------------------------
\* C5  the terminator
\* ------------------------------------------------------------------------

\* the terminator the arguments and the entry point determine
EntryTerminator == IF entry = "print" THEN "\n" ELSE print_nothing

ResolvedTerminator ==
  IF \E n \in 1..Len(args) : args[n].k = "end_value"
  THEN args[CHOOSE n \in 1..Len(args) : args[n].k = "end_value"].v
  ELSE IF \E n \in 1..Len(args) : args[n].k = "end_t" THEN print_nothing
  ELSE EntryTerminator

\* C5: in a finished call the terminator is the one bound in the argument
\* list, wherever the Binding stands, else the entry point's default.  If it
\* is not the Sentinel the log holds exactly one terminator write, of that
\* value, to the resolved channel, with every write of an argument or
\* separator before it and nothing but flushes after it; if it is the
\* Sentinel there is no terminator write.  print("a", end="!") writes "a"
\* then "!", print(end=Sentinel) writes nothing.
C5_TerminatorOnceLast ==
  Finished
  => /\ opts.end = ResolvedTerminator
     /\ ResolvedTerminator # print_nothing
        => /\ Len(EventsOf("end")) = 1
           /\ \E n \in 1..Len(log) :
                /\ log[n].role = "end"
                /\ log[n].op = "write"
                /\ log[n].val = ResolvedTerminator
                /\ log[n].ch = opts.file
                /\ \A m \in 1..Len(log) :
                     /\ m < n => log[m].role \in {"arg", "sep"}
                     /\ m > n => log[m].role = "flush"
     /\ ResolvedTerminator = print_nothing => EventsOf("end") = <<>>
     /\ (entry = "print"
         /\ args = <<[k |-> "value", v |-> "a"], [k |-> "end_value", v |-> "!"]>>)
        => Observable(log) = <<[ch |-> "cout", op |-> "write", val |-> "a"],
                               [ch |-> "cout", op |-> "write", val |-> "!"]>>
     /\ (entry = "print" /\ args = <<[k |-> "end_value", v |-> print_nothing]>>)
        => log = <<>>

\* a call whose first argument is end="!", followed by a printable argument
\* and a flush, has finished: the terminator after the value and before the
\* flush
C5_Witness ==
  /\ Finished
  /\ Len(args) = 3
  /\ args[1] = [k |-> "end_value", v |-> "!"]
  /\ IsPrintable(args[2])
  /\ args[3].k = "flush_t"
  /\ \E n \in 1..Len(log) :
       /\ log[n].val = "!" /\ log[n].role = "end"
       /\ n > 1 /\ log[n - 1].role = "arg"
       /\ n < Len(log) /\ log[n + 1].role = "flush"

\* ------------------------------------------------------------------------
\* C6  print()
\* ------------------------------------------------------------------------

\* C6: print() without arguments, once finished, has made exactly one
\* write, of the newline as the terminator, to std::cout; no separator, and
\* the flush strategy was not invoked.
C6_EmptyPrint ==
  (Finished /\ entry = "print" /\ args = <<>>)
  => /\ Observable(log) = <<[ch |-> "cout", op |-> "write", val |-> "\n"]>>
     /\ log[1].role = "end"
     /\ flusherCalls = 0

\* print() has finished, with one event in the log
C6_Witness ==
  /\ Finished /\ entry = "print" /\ args = <<>>
  /\ Len(log) = 1

\* ------------------------------------------------------------------------
\* C7  duplicate bindings
\* ------------------------------------------------------------------------

\* the slot an argument binds, "none" if it binds none
SlotOf(a) ==
  CASE a.k \in {"sep_value", "sep_t"} -> "sep"
    [] a.k \in {"end_value", "end_t"} -> "end"
    [] a.k = "file_value" -> "file"
    [] a.k \in {"flush_value", "flush_t"} -> "flush"
    [] OTHER -> "none"

\* some slot is bound by two arguments of the call
DuplicateBinding ==
  \E m, n \in 1..Len(args) :
    m < n /\ SlotOf(args[m]) # "none" /\ SlotOf(args[m]) = SlotOf(args[n])

\* C7: once the options of a call are merged, a call that binds a slot
\* twice (by values, bare tags or one of each, at any two positions) is
\* rejected, and a rejected call has produced no output and no flush; a
\* call that binds every slot at most once is not rejected as a duplicate.
C7_DuplicateRejected ==
  pc # "print_impl_3"
  => /\ DuplicateBinding => pc = "rejected" /\ opts.ill_formed
     /\ pc = "rejected" => log = <<>> /\ flusherCalls = 0
     /\ ~DuplicateBinding => ~opts.ill_formed

\* a call with a bare sep first, a printable argument and sep="+" last has
\* been rejected
C7_Witness ==
  /\ pc = "rejected"
  /\ Len(args) = 3
  /\ args[1].k = "sep_t"
  /\ IsPrintable(args[2])
  /\ args[3] = [k |-> "sep_value", v |-> "+"]
  /\ log = <<>>

\* ------------------------------------------------------------------------
\* C8  a bare tag is its default Binding
\* ------------------------------------------------------------------------

\* the documented default Binding of a bare tag; any other argument as it is
DefaultBinding(a) ==
  CASE a.k = "sep_t" -> [k |-> "sep_value", v |-> print_nothing]
    [] a.k = "end_t" -> [k |-> "end_value", v |-> print_nothing]
    [] a.k = "flush_t" -> [k |-> "flush_value", v |-> "true"]
    [] OTHER -> a

\* the argument lists got from the call's by replacing one bare separator,
\* terminator or flush tag, or all of them
BareTagsReplaced ==
  { [args EXCEPT ![n] = DefaultBinding(args[n])] :
      n \in { m \in 1..Len(args) : IsBareOption(args[m]) } }
  \cup { [n \in 1..Len(args) |-> DefaultBinding(args[n])] }

\* C8: a call that has finished or been rejected ended exactly as the same
\* entry point with the same flush strategy ends on the argument list in
\* which a bare separator, terminator or flush tag is replaced by
\* sep=Sentinel, end=Sentinel, flush=true: accepted or rejected alike, the
\* same options record, the same writes and flushes in the same order, the
\* same number of invocations of the flush strategy.
C8_BareTagIsDefaultBinding ==
  pc \in {"done", "rejected"}
  => \A as \in BareTagsReplaced :
       LET r == print_impl_3(Flusher, entry, as)
       IN  /\ r.status = pc
           /\ r.opts = opts
           /\ r.log = log
           /\ r.flusherCalls = flusherCalls

\* print with a printable argument, a bare end and a bare flush has
\* finished: no terminator written, the channel flushed
C8_Witness ==
  /\ Finished
  /\ entry = "print"
  /\ Cardinality(PrintablePositions) = 1
  /\ \E n \in 1..Len(args) : args[n].k = "end_t"
  /\ \E n \in 1..Len(args) : args[n].k = "flush_t"
  /\ EventsOf("end") = <<>>
  /\ EventsOf("flush") # <<>>

\* ------------------------------------------------------------------------
\* C9  options are skipped by print_impl
\* ------------------------------------------------------------------------

\* a bare tag, of any of the four tags
IsBareTag(a) == a.k \in {"sep_t", "end_t", "file_t", "flush_t"}

\* C9 as stated: the step of print_impl at a Binding or at a bare tag of
\* any of the four tags writes nothing and leaves PrintSep as it was.
C9_EveryTagSkipped ==
  [][(AtArg /\ (IsBinding(args[i]) \/ IsBareTag(args[i])))
     => (log' = log /\ PrintSep' = PrintSep)]_vars

\* C9, amended: the step of print_impl at a Binding of any of the four tags
\* or at a bare sep, end or flush tag writes nothing, leaves PrintSep as it
\* was and goes on to the next argument; a bare file tag is no option: the
\* step at it writes the tag to the channel as a printable argument (after
\* the separator, if one is due) and leaves PrintSep true.
C9_OptionsSkipped ==
  [][/\ (AtArg /\ IsOption(args[i]))
        => (log' = log /\ PrintSep' = PrintSep /\ i' = i + 1 /\ pc' = pc)
     /\ (AtArg /\ args[i].k = "file_t")
        => /\ PrintSep'
           /\ Len(log') > Len(log)
           /\ log'[Len(log')] = [ch |-> opts.file, op |-> "write", val |-> "file_t",
                                role |-> "arg", idx |-> i]]_vars

\* print_impl has passed file=custom with PrintSep still false, written a
\* value, and passed a bare flush tag with PrintSep still true and the log
\* unchanged
C9_Witness ==
  /\ pc = "print_impl" /\ i = 4
  /\ args[1].k = "file_value" /\ args[2].k = "value" /\ args[3].k = "flush_t"
  /\ PrintSep
  /\ Len(log) = 1
  /\ log[1].idx = 2 /\ log[1].role = "arg"

\* ------------------------------------------------------------------------
\* C10  flush gating
\* ------------------------------------------------------------------------

\* the channel the arguments determine
ResolvedChannel ==
  IF \E n \in 1..Len(args) : args[n].k = "file_value"
  THEN args[CHOOSE n \in 1..Len(args) : args[n].k = "file_value"].v
  ELSE "cout"

\* the call asks for a flush: flush=true or the bare flush tag
FlushRequested ==
  \E n \in 1..Len(args) :
    args[n] = [k |-> "flush_value", v |-> "true"] \/ args[n].k = "flush_t"

\* C10: a finished call without flush=true and without the bare flush tag
\* (no flush argument at all, or flush=false) has not invoked the flush
\* strategy and flushed nothing; a finished call with flush=true or the bare
\* flush tag has invoked the strategy exactly once, and every flush went to
\* the resolved channel: one flush with print_flusher, two with flush_twice.
C10_FlushGating ==
  Finished
  => /\ ~FlushRequested => flusherCalls = 0 /\ EventsOf("flush") = <<>>
     /\ FlushRequested
        => /\ flusherCalls = 1
           /\ Len(EventsOf("flush")) = (IF Flusher = "flush_twice" THEN 2 ELSE 1)
           /\ \A n \in 1..Len(log) :
                log[n].role = "flush" => log[n].op = "flush" /\ log[n].ch = ResolvedChannel

\* print<flush_twice>(..., flush=true, file=custom) has finished with two
\* flushes of the custom channel
C10_Witness ==
  /\ Finished
  /\ Flusher = "flush_twice"
  /\ \E n \in 1..Len(args) : args[n] = [k |-> "flush_value", v |-> "true"]
  /\ \E n \in 1..Len(args) : args[n].k = "file_value"
  /\ Len(EventsOf("flush")) = 2
  /\ \A n \in 1..Len(log) : log[n].ch = "custom"

\* a finished call with flush=false and no flush
C10_WitnessFalse ==
  /\ Finished
  /\ \E n \in 1..Len(args) : args[n] = [k |-> "flush_value", v |-> "false"]
  /\ EventsOf("flush") = <<>>

\* ------------------------------------------------------------------------
\* C11  raw_print and print_no_end in terms of print
\* ------------------------------------------------------------------------

SepSentinel == [k |-> "sep_value", v |-> print_nothing]
EndSentinel == [k |-> "end_value", v |-> print_nothing]

\* the call binds neither the separator nor the terminator, by value or by
\* bare tag
NoSepEndBinding ==
  \A n \in 1..Len(args) : SlotOf(args[n]) \notin {"sep", "end"}

\* the call ended as print ends on the argument list as: accepted or
\* rejected alike, the same writes and flushes in the same order on the same
\* channels, the same number of invocations of the flush strategy
EndedAsPrintOf(as) ==
  LET r == print_impl_3(Flusher, "print", as)
  IN  /\ r.status = pc
      /\ Observable(r.log) = Observable(log)
      /\ r.flusherCalls = flusherCalls

\* C11: a call of raw_print that binds neither separator nor terminator
\* ended as print ends on the same arguments followed (or preceded) by
\* sep=Sentinel, end=Sentinel; such a call of print_no_end ended as print
\* ends on the same arguments followed (or preceded) by end=Sentinel.
C11_EntryPointEquivalence ==
  (pc \in {"done", "rejected"} /\ NoSepEndBinding)
  => /\ entry = "raw_print"
        => /\ EndedAsPrintOf(args \o <<SepSentinel, EndSentinel>>)
           /\ EndedAsPrintOf(<<EndSentinel, SepSentinel>> \o args)
     /\ entry = "print_no_end"
        => /\ EndedAsPrintOf(args \o <<EndSentinel>>)
           /\ EndedAsPrintOf(<<EndSentinel>> \o args)

\* raw_print of three printable arguments and a bare flush has finished:
\* the three values and the flush, nothing else
C11_Witness ==
  /\ Finished
  /\ entry = "raw_print"
  /\ NoSepEndBinding
  /\ Len(args) = 3 /\ Cardinality(PrintablePositions) = 2
  /\ args[3].k = "flush_t"
  /\ Len(EventsOf("arg")) = 2
  /\ Len(log) = 2 + Len(EventsOf("flush"))

\* print_no_end of two printable arguments has finished: the values with
\* the separator between them, no terminator
C11_WitnessNoEnd ==
  /\ Finished
  /\ entry = "print_no_end"
  /\ NoSepEndBinding
  /\ Cardinality(PrintablePositions) = 2
  /\ Len(EventsOf("sep")) = 1
  /\ EventsOf("end") = <<>>

\* ------------------------------------------------------------------------
\* C12  the bound channel
\* ------------------------------------------------------------------------

\* the call has a channel Binding
HasChannelBinding == \E n \in 1..Len(args) : args[n].k = "file_value"

\* C12: at every moment of a call with a channel Binding, wherever the
\* Binding stands, every event of the log (the write of an argument, of a
\* separator, of the terminator, a flush) is an event of the bound channel
\* and none is an event of std::cout; at every moment of a call without a
\* channel Binding every event is an event of std::cout.
C12_ChannelRedirection ==
  /\ HasChannelBinding
     => \A n \in 1..Len(log) : log[n].ch = ResolvedChannel /\ log[n].ch # "cout"
  /\ ~HasChannelBinding
     => \A n \in 1..Len(log) : log[n].ch = "cout"

\* print of a printable argument, file=custom and a second printable
\* argument has finished: value, separator, value and terminator, all four
\* on the custom channel
C12_Witness ==
  /\ Finished
  /\ entry = "print"
  /\ Len(args) = 3
  /\ IsPrintable(args[1]) /\ args[2].k = "file_value" /\ IsPrintable(args[3])
  /\ Len(log) = 4
  /\ \A n \in 1..4 : log[n].ch = "custom"

\* a call with file=custom last and a flush has finished, the flush on the
\* custom channel
C12_WitnessLast ==
  /\ Finished
  /\ Len(args) = 3
  /\ IsPrintable(args[1]) /\ args[2].k = "flush_t" /\ args[3].k = "file_value"
  /\ log[Len(log)] = FlushEvent("custom")

\* ------------------------------------------------------------------------
\* C13  the place of the options does not matter
\* ------------------------------------------------------------------------

\* the arguments that are no options, in the order of the call
NonOptions(as) == SelectSeq(as, LAMBDA a : ~IsOption(a))

\* the options of the call that bind the given slot
OptionsOfSlot(as, slot) == SelectSeq(as, LAMBDA a : SlotOf(a) = slot)

\* the same call written with all its options after, or before, the other
\* arguments, the options in a fixed order of their slots
OptionsLast(as) ==
  NonOptions(as) \o OptionsOfSlot(as, "sep") \o OptionsOfSlot(as, "end")
    \o OptionsOfSlot(as, "file") \o OptionsOfSlot(as, "flush")

OptionsFirst(as) ==
  OptionsOfSlot(as, "flush") \o OptionsOfSlot(as, "file")
    \o OptionsOfSlot(as, "end") \o OptionsOfSlot(as, "sep") \o NonOptions(as)

\* C13: the record is merged from all the arguments before anything is
\* written and stays as merged; every separator written is the one the
\* merged record holds, wherever its Binding stands; and a call that has
\* finished or been rejected ended as the same entry point ends on the
\* argument list with the same options and the same other arguments in the
\* same order, the options moved behind or before the other arguments:
\* accepted or rejected alike, the same writes and flushes.  Two argument
\* lists with the same options and the same other arguments have these
\* rearrangements in common.
C13_OptionOrderIrrelevant ==
  /\ pc = "print_impl_3" => log = <<>>
  /\ pc \in {"print_impl", "print_end_impl", "print_flush", "done"}
     => /\ opts = combine_options(initial_options(entry), args)
        /\ \A n \in 1..Len(log) : log[n].role = "sep" => log[n].val = opts.sep
  /\ pc \in {"done", "rejected"}
     => \A as \in {OptionsLast(args), OptionsFirst(args)} :
          LET r == print_impl_3(Flusher, entry, as)
          IN  /\ r.status = pc
              /\ Observable(r.log) = Observable(log)
              /\ r.flusherCalls = flusherCalls
              /\ pc = "done" => r.opts = opts

\* a call of a printable argument, sep="+" and a second printable argument
\* has finished, "+" written between the two values
C13_Witness ==
  /\ Finished
  /\ Len(args) = 3
  /\ IsPrintable(args[1])
  /\ args[2] = [k |-> "sep_value", v |-> "+"]
  /\ IsPrintable(args[3])
  /\ Len(EventsOf("sep")) = 1
  /\ EventsOf("sep")[1].val = "+"
  /\ OptionsLast(args) # args /\ OptionsFirst(args) # args

\* ------------------------------------------------------------------------
\* C14  no-throw composition
\* ------------------------------------------------------------------------

\* the separator the arguments and the entry point determine
EntrySeparator == IF entry = "raw_print" THEN print_nothing ELSE " "

ResolvedSeparator ==
  IF \E n \in 1..Len(args) : args[n].k = "sep_value"
  THEN args[CHOOSE n \in 1..Len(args) : args[n].k = "sep_value"].v
  ELSE IF \E n \in 1..Len(args) : args[n].k = "sep_t" THEN print_nothing
  ELSE EntrySeparator

\* the resolved channel's write of a value of the type of v is declared
\* non-failing; the flush strategy on the resolved channel is
WriteGuarantee(v) == write_noexcept(file_noexcept, ResolvedChannel, v)

FlushGuarantee == flusher_noexcept(file_noexcept, Flusher, ResolvedChannel)

\* noexcept has been applied to a call that builds
Declared == declared \in {"true", "false"}

\* the four guarantees, each for the type the call resolves to
AllGuarantees ==
  /\ \A n \in PrintablePositions : WriteGuarantee(args[n].v)
  /\ WriteGuarantee(ResolvedSeparator)
  /\ WriteGuarantee(ResolvedTerminator)
  /\ FlushGuarantee

\* C14: when the resolved channel's write of the type of every printable
\* argument, of the type of the resolved separator and of the type of the
\* resolved terminator, and the flush strategy on the resolved channel, are
\* all declared non-failing, noexcept of the call is true.
C14_NoThrowComposition ==
  (Declared /\ AllGuarantees) => declared = "true"

\* noexcept(print(a, b, file=void_stream)) has been evaluated: true
C14_Witness ==
  /\ declared = "true"
  /\ entry = "print"
  /\ file_noexcept = void_stream_t_noexcept
  /\ HasChannelBinding
  /\ Cardinality(PrintablePositions) = 2
  /\ AllGuarantees

\* ------------------------------------------------------------------------
\* C15  the declared guarantee as a conjunction
\* ------------------------------------------------------------------------

\* some printable argument follows another with no Sentinel between them
SeparatorDue ==
  \E p, q \in 1..Len(args) :
    /\ ConsecutivePrintables(p, q)
    /\ \A n \in SentinelPositions : ~(p < n /\ n < q)

\* the call has a flush Binding or the bare flush tag
FlushArgument == \E n \in 1..Len(args) : SlotOf(args[n]) = "flush"

\* C15 as stated: noexcept of the call is true exactly when the four
\* guarantees all are.
C15_ConjunctionOfFour ==
  Declared => (declared = "true" <=> AllGuarantees)

\* C15, amended: noexcept of the call is true exactly when the resolved
\* channel's write is declared non-failing for the type of every printable
\* argument; for the type of the resolved separator, the Sentinel's type
\* included, if some printable argument follows another with no Sentinel
\* between them; for the type of the resolved terminator if that is not the
\* Sentinel; and the flush strategy is declared non-failing if the call has
\* a flush Binding (true or false) or the bare flush tag.
C15_ConjunctionOfNeeded ==
  Declared
  => (declared = "true"
      <=> /\ \A n \in PrintablePositions : WriteGuarantee(args[n].v)
          /\ SeparatorDue => WriteGuarantee(ResolvedSeparator)
          /\ ResolvedTerminator # print_nothing => WriteGuarantee(ResolvedTerminator)
          /\ FlushArgument => FlushGuarantee)

\* noexcept(print_no_end<flush_twice>(a, file=c)) is true for a channel c
\* whose write is non-failing for strings and not for characters: neither
\* the separator ' ' nor the flush strategy is asked for its guarantee
C15_Witness ==
  /\ declared = "true"
  /\ entry = "print_no_end"
  /\ Flusher = "flush_twice"
  /\ HasChannelBinding
  /\ Cardinality(PrintablePositions) = 1
  /\ ~WriteGuarantee(ResolvedSeparator)
  /\ ~FlushGuarantee

\* noexcept of a call with flush=false and a flush strategy that may fail
\* is false, everything else non-failing
C15_WitnessFlushFalse ==
  /\ declared = "false"
  /\ Flusher = "flush_twice"
  /\ file_noexcept = void_stream_t_noexcept
  /\ HasChannelBinding
  /\ \E n \in 1..Len(args) : args[n] = [k |-> "flush_value", v |-> "false"]

\* ------------------------------------------------------------------------
\* C16  a failing write
\* ------------------------------------------------------------------------

\* everything the call sends to the channels when no write fails
WholeLog == print_impl_3(Flusher, entry, args).log

\* C16: once a write has failed, the caller has the exception of exactly
\* that write; the log holds the writes that come before the failing one in
\* the call's sequence of writes and nothing else: the failing write, every
\* write after it, the terminator (unless it was the terminator that
\* failed, which then was not written either) and every flush are missing,
\* and the flush strategy was not invoked.  Nothing is thrown otherwise.
C16_FailingWriteAborts ==
  /\ pc = "thrown"
     => /\ Len(exception) = 1
        /\ Len(log) < Len(WholeLog)
        /\ log = SubSeq(WholeLog, 1, Len(log))
        /\ exception[1] = WholeLog[Len(log) + 1]
        /\ exception[1].op = "write"
        /\ \A n \in 1..Len(log) : log[n].role \in {"arg", "sep"}
        /\ flusherCalls = 0
  /\ pc # "thrown" => exception = <<>>

\* print(a, b, flush): the write of the separator has failed after the
\* write of the first value; the second value, the terminator and the flush
\* have not happened
C16_Witness ==
  /\ pc = "thrown"
  /\ entry = "print"
  /\ Len(args) = 3
  /\ IsPrintable(args[1]) /\ IsPrintable(args[2]) /\ args[3].k = "flush_t"
  /\ exception[1].role = "sep"
  /\ Len(log) = 1
  /\ Len(WholeLog) >= 5

\* the write of the terminator has failed in a call that asks for a flush
C16_WitnessEnd ==
  /\ pc = "thrown"
  /\ exception[1].role = "end"
  /\ FlushRequested
  /\ EventsOf("flush") = <<>>

\* ------------------------------------------------------------------------
\* C17  nothing persists from call to call
\* ------------------------------------------------------------------------

\* the call binds the slot, by value or by bare tag
Binds(slot) == \E n \in 1..Len(args) : SlotOf(args[n]) = slot

\* C17: in a call made after any calls with any Bindings, the record starts
\* from the entry point's defaults with no slot set; once merged, every
\* slot the call does not bind holds the entry point's default (for print:
\* ' ', newline, std::cout, no flush); and the call ends as the function of
\* its own entry point, flush strategy and arguments says, with the same
\* writes and flushes, whatever the call before had bound.
C17_NothingPersists ==
  previous # <<>>
  => /\ pc = "print_impl_3"
        => opts = print_options(EntrySeparator, EntryTerminator, "cout", FALSE)
     /\ pc \in {"print_impl", "print_end_impl", "print_flush", "done"}
        => /\ ~Binds("sep") => opts.sep = EntrySeparator
           /\ ~Binds("end") => opts.end = EntryTerminator
           /\ ~Binds("file") => opts.file = "cout"
           /\ ~Binds("flush") => opts.flush = FALSE
     /\ pc \in {"done", "rejected"}
        => LET r == print_impl_3(Flusher, entry, args)
           IN  r.status = pc /\ r.log = log /\ r.flusherCalls = flusherCalls

\* after a call of raw_print that bound sep="+", print(a, b) has finished:
\* a, ' ', b, newline on std::cout, no flush
C17_Witness ==
  /\ previous = <<[sep |-> "+", end |-> print_nothing, file |-> "cout", flush |-> FALSE]>>
  /\ Finished
  /\ entry = "print"
  /\ Len(args) = 2 /\ IsPrintable(args[1]) /\ IsPrintable(args[2])
  /\ Len(log) = 4
  /\ log[2].val = " " /\ log[4].val = "\n"
  /\ \A n \in 1..4 : log[n].ch = "cout"

\* after a call that bound the custom channel, a call without a channel
\* Binding has finished with its terminator on std::cout
C17_WitnessChannel ==
  /\ previous # <<>> /\ previous[1].file = "custom"
  /\ Finished
  /\ ~HasChannelBinding
  /\ log # <<>> /\ log[Len(log)].ch = "cout"

\* ------------------------------------------------------------------------
\* C18  what a merge changes
\* ------------------------------------------------------------------------

Slots == {"sep", "end", "file", "flush"}

\* the value a record holds in a slot, and whether the slot's bit is set
SlotValue(o, slot) ==
  CASE slot = "sep" -> <<"sep", o.sep>>
    [] slot = "end" -> <<"end", o.end>>
    [] slot = "file" -> <<"file", o.file>>
    [] slot = "flush" -> <<"flush", o.flush>>

SetBit(o, slot) ==
  CASE slot = "sep" -> pm_and(o.Manipulated, pm_sep)
    [] slot = "end" -> pm_and(o.Manipulated, pm_end)
    [] slot = "file" -> pm_and(o.Manipulated, pm_file)
    [] slot = "flush" -> pm_and(o.Manipulated, pm_flush)

\* the value an option binds to its slot
BoundValue(a) ==
  CASE a.k \in {"sep_value", "end_value", "file_value"} -> <<SlotOf(a), a.v>>
    [] a.k = "flush_value" -> <<"flush", a.v = "true">>
    [] a.k \in {"sep_t", "end_t"} -> <<SlotOf(a), print_nothing>>
    [] a.k = "flush_t" -> <<"flush", TRUE>>

\* the record after the first n arguments of the call have been merged
MergedPrefix(n) == combine_options(initial_options(entry), SubSeq(args, 1, n))

\* C18: in the fold that has just merged the arguments of a call, each
\* single merge changed only what its argument targets.  The merge of an
\* option whose slot was not set gave a record that holds the bound value in
\* that slot with the slot's bit set, and the values and bits of the other
\* three slots as they were; the merge of a printable argument or of a
\* Sentinel gave the record it was given, all four values and all four bits.
C18_MergeFrame ==
  (pc \in {"print_impl", "rejected"} /\ i = 1)
  => /\ opts = MergedPrefix(Len(args))
     /\ \A n \in 1..Len(args) :
          LET before == MergedPrefix(n - 1)
              after == plus(before, args[n])
              slot == SlotOf(args[n])
          IN  /\ after = MergedPrefix(n)
              /\ slot = "none" => after = before
              /\ (slot # "none" /\ ~SetBit(before, slot))
                 => /\ SlotValue(after, slot) = BoundValue(args[n])
                    /\ SetBit(after, slot)
                    /\ after.ill_formed = before.ill_formed
                    /\ \A other \in Slots \ {slot} :
                         /\ SlotValue(after, other) = SlotValue(before, other)
                         /\ SetBit(after, other) = SetBit(before, other)

\* the fold has merged sep="+", a value and flush=false: separator and
\* flush set, terminator and channel as print starts them
C18_Witness ==
  /\ pc = "print_impl" /\ i = 1
  /\ entry = "print"
  /\ Len(args) = 3
  /\ args[1] = [k |-> "sep_value", v |-> "+"]
  /\ args[2].k = "value"
  /\ args[3] = [k |-> "flush_value", v |-> "false"]
  /\ opts.sep = "+" /\ opts.end = "\n" /\ opts.file = "cout" /\ opts.flush = FALSE
  /\ opts.Manipulated = pm_sep + pm_flush

\* ------------------------------------------------------------------------
\* C19  the order of the events of a call
\* ------------------------------------------------------------------------

\* C19: at every moment of a call, in the log: every write of an argument
\* or of a separator stands before the write of the terminator; every flush
\* stands after the write of the terminator and after every write of an
\* argument or separator, so that nothing but flushes follows a flush; the
\* flush strategy has only been invoked in a call that has made all its
\* writes; and a finished call that asked for a flush has its flushes as
\* the last events of the log, directly after the terminator or, when the
\* terminator is the Sentinel, directly after the last write of an argument.
C19_EventOrder ==
  /\ \A m, n \in 1..Len(log) :
       m < n => /\ log[n].role \in {"arg", "sep"} => log[m].role \in {"arg", "sep"}
                /\ log[n].role = "end" => log[m].role \in {"arg", "sep"}
                /\ log[m].role = "flush" => log[n].role = "flush"
  /\ (flusherCalls > 0 \/ EventsOf("flush") # <<>>) => Finished
  /\ (Finished /\ FlushRequested)
     => LET first == Len(log) - Len(EventsOf("flush")) + 1
        IN  /\ Len(EventsOf("flush")) >= 1
            /\ \A n \in first..Len(log) : log[n].role = "flush"
            /\ (first > 1 /\ opts.end # print_nothing) => log[first - 1].role = "end"
            /\ (first > 1 /\ opts.end = print_nothing) => log[first - 1].role = "arg"

\* print<flush_twice>(a, b, flush) has finished: value, separator, value,
\* terminator, flush, flush
C19_Witness ==
  /\ Finished
  /\ entry = "print" /\ Flusher = "flush_twice"
  /\ Len(args) = 3 /\ args[3].k = "flush_t"
  /\ Len(log) = 6
  /\ log[1].role = "arg" /\ log[2].role = "sep" /\ log[3].role = "arg"
  /\ log[4].role = "end" /\ log[5].role = "flush" /\ log[6].role = "flush"

\* a call whose terminator is the Sentinel has finished with a flush
\* directly after the write of its last argument
C19_WitnessNoEnd ==
  /\ Finished
  /\ opts.end = print_nothing
  /\ Len(log) >= 2
  /\ log[Len(log)].role = "flush" /\ log[Len(log) - 1].role = "arg"

\* ------------------------------------------------------------------------
\* C20  defaults are not bindings
\* ------------------------------------------------------------------------

\* a Binding for each slot
BindingOf(slot) ==
  CASE slot = "sep" -> [k |-> "sep_value", v |-> "+"]
    [] slot = "end" -> [k |-> "end_value", v |-> "!"]
    [] slot = "file" -> [k |-> "file_value", v |-> "custom"]
    [] slot = "flush" -> [k |-> "flush_value", v |-> "false"]

\* the arguments of the call followed by a Binding for every slot that the
\* call does not bind: a call that binds each of the four slots
AllSlotsBound ==
  LET add(as, slot) == IF Binds(slot) THEN as ELSE Append(as, BindingOf(slot))
  IN  add(add(add(add(args, "sep"), "end"), "file"), "flush")

\* C20: whatever the entry point, the record of a call starts with no slot
\* set.  So a call that binds no slot twice is not rejected as a duplicate,
\* and neither is the call that binds, besides, every slot it had left
\* unbound: all four slots bound once, all four bits set, no error, in print,
\* raw_print and print_no_end alike.  And a call of raw_print that binds
\* separator and terminator, or of print_no_end that binds the terminator,
\* ended as print ends on the same arguments; a call of raw_print that
\* binds the separator alone as print ends on them with end=Sentinel.
C20_DefaultsAreNotBindings ==
  /\ pc = "print_impl_3" => opts.Manipulated = pm_none /\ ~opts.ill_formed
  /\ (pc \in {"print_impl", "rejected"} /\ i = 1 /\ ~DuplicateBinding)
     => /\ ~opts.ill_formed
        /\ \A slot \in Slots : SetBit(opts, slot) <=> Binds(slot)
        /\ LET o == combine_options(initial_options(entry), AllSlotsBound)
           IN  ~o.ill_formed /\ \A slot \in Slots : SetBit(o, slot)
  /\ pc \in {"done", "rejected"}
     => /\ (entry = "raw_print" /\ Binds("sep") /\ Binds("end"))
           => EndedAsPrintOf(args)
        /\ (entry = "print_no_end" /\ Binds("end"))
           => EndedAsPrintOf(args)
        /\ (entry = "raw_print" /\ Binds("sep") /\ ~Binds("end"))
           => EndedAsPrintOf(Append(args, EndSentinel))

\* raw_print(a, sep="+", end="!") has finished: the value and "!"
C20_Witness ==
  /\ Finished
  /\ entry = "raw_print"
  /\ Len(args) = 3
  /\ IsPrintable(args[1])
  /\ args[2] = [k |-> "sep_value", v |-> "+"]
  /\ args[3] = [k |-> "end_value", v |-> "!"]
  /\ opts.Manipulated = pm_sep + pm_end
  /\ Len(log) = 2 /\ log[2].val = "!"

\* print_no_end(a, b, end="!") has finished: a, ' ', b, "!"
C20_WitnessNoEnd ==
  /\ Finished
  /\ entry = "print_no_end"
  /\ Len(args) = 3
  /\ IsPrintable(args[1]) /\ IsPrintable(args[2])
  /\ args[3] = [k |-> "end_value", v |-> "!"]
  /\ Len(log) = 4 /\ log[2].val = " " /\ log[4].val = "!"

\* ------------------------------------------------------------------------
\* C21  a printable argument that prints nothing
\* ------------------------------------------------------------------------

IsEmptyString(a) == a.k = "value" /\ a.v = EmptyString

\* a separator is due before position n: the call has a printable argument
\* before n with neither a printable argument nor a Sentinel between
ReadyBefore(n) ==
  \E p \in PrintablePositions :
    /\ p < n
    /\ \A m \in PrintablePositions \cup SentinelPositions : ~(p < m /\ m < n)

\* the characters a log puts on the channels: the values written, without
\* those that put no character
Characters(l) ==
  LET w == SelectSeq(l, LAMBDA e : e.op = "write" /\ e.val # EmptyString)
  IN  [n \in 1..Len(w) |-> w[n].val]

\* print(v, x, "b", end="", sep="+")
ExampleCall(v, x) ==
  <<[k |-> "value", v |-> v], x, [k |-> "value", v |-> "b"],
    [k |-> "end_value", v |-> EmptyString], [k |-> "sep_value", v |-> "+"]>>

\* C21: when print_impl has just passed an empty string, the last event of
\* the log is the write of that empty string to the channel, PrintSep is
\* true, and the event before it is the write of the separator for this
\* argument exactly when a separator was due and the separator is not the
\* Sentinel; a finished call has written every one of its empty strings.
\* print("a", "", "b", end="", sep="+") puts a + + b on the channel, the
\* same call with the Sentinel in place of "" puts a b.
C21_EmptyIsPrintable ==
  /\ (pc = "print_impl" /\ i > 1 /\ IsEmptyString(args[i - 1]))
     => /\ PrintSep
        /\ log # <<>>
        /\ log[Len(log)] = WriteEvent(opts.file, "arg", EmptyString, i - 1)
        /\ (Len(log) > 1 /\ log[Len(log) - 1] = WriteEvent(opts.file, "sep", opts.sep, i - 1))
           <=> (ReadyBefore(i - 1) /\ opts.sep # print_nothing)
  /\ Finished
     => /\ \A n \in 1..Len(args) :
             IsEmptyString(args[n])
             => \E m \in 1..Len(log) : log[m].role = "arg" /\ log[m].idx = n
        /\ (entry = "print" /\ args = ExampleCall("a", [k |-> "value", v |-> EmptyString]))
           => Characters(log) = <<"a", "+", "+", "b">>
        /\ (entry = "print"
            /\ args = ExampleCall("a", [k |-> "print_nothing_t", v |-> print_nothing]))
           => Characters(log) = <<"a", "b">>

\* print("a", "", "b", end="", sep="+") has finished: six writes
C21_Witness ==
  /\ Finished
  /\ entry = "print"
  /\ args = ExampleCall("a", [k |-> "value", v |-> EmptyString])
  /\ Len(log) = 6
  /\ log[3].val = EmptyString /\ log[3].role = "arg"
  /\ log[2].role = "sep" /\ log[4].role = "sep"

\* ------------------------------------------------------------------------
\* C22  the set bits through the fold
\* ------------------------------------------------------------------------

\* the slots whose bit a record has set
Bits(o) == { slot \in Slots : SetBit(o, slot) }

\* the slots that the options among the first n arguments bind
TargetedSlots(n) == { SlotOf(args[m]) : m \in 1..n } \ {"none"}

\* the options of the call: Bindings and bare sep, end, flush tags
OptionPositions == { n \in 1..Len(args) : IsOption(args[n]) }

\* C22: in the fold of an accepted call, the record starts with no bit; the
\* bits set after each prefix of the arguments are exactly the slots bound
\* by the options of that prefix, and they include the bits set after the
\* prefix one shorter; the record handed to print_impl_2 has as many bits
\* as the call has options, four at most; and the same holds of the call
\* extended to bind every slot, which ends with all four bits.
C22_SetBitsGrow ==
  (pc = "print_impl" /\ i = 1)
  => /\ Bits(MergedPrefix(0)) = {}
     /\ \A n \in 1..Len(args) :
          /\ Bits(MergedPrefix(n)) = TargetedSlots(n)
          /\ Bits(MergedPrefix(n - 1)) \subseteq Bits(MergedPrefix(n))
          /\ MergedPrefix(n).Manipulated >= MergedPrefix(n - 1).Manipulated
     /\ Bits(opts) = TargetedSlots(Len(args))
     /\ Cardinality(Bits(opts)) = Cardinality(OptionPositions)
     /\ Cardinality(Bits(opts)) <= 4
     /\ LET o == combine_options(initial_options(entry), AllSlotsBound)
        IN  /\ Bits(opts) \subseteq Bits(o)
            /\ Cardinality(Bits(o)) = 4
            /\ o.Manipulated = pm_sep + pm_end + pm_file + pm_flush

\* the fold of a call with a bare end, file=custom and flush=true has
\* ended: three options, three bits
C22_Witness ==
  /\ pc = "print_impl" /\ i = 1
  /\ Len(args) = 3
  /\ args[1].k = "end_t" /\ args[2].k = "file_value"
  /\ args[3] = [k |-> "flush_value", v |-> "true"]
  /\ Bits(opts) = {"end", "file", "flush"}
  /\ Bits(MergedPrefix(1)) = {"end"}
  /\ Bits(MergedPrefix(2)) = {"end", "file"}
  /\ opts.Manipulated = pm_end + pm_file + pm_flush

\* ------------------------------------------------------------------------
\* C23  the two flush decisions
\* ------------------------------------------------------------------------

\* the call has the bare flush tag; it has a flush Binding
BareFlush == \E n \in 1..Len(args) : args[n].k = "flush_t"
FlushBinding == \E n \in 1..Len(args) : args[n].k = "flush_value"

\* the boolean the flush Binding of the call binds
BoundFlush == args[CHOOSE n \in 1..Len(args) : args[n].k = "flush_value"].v = "true"

\* the call has been accepted and its record merged
Accepted == pc \in {"print_impl", "print_end_impl", "print_flush", "done"}

\* C23: in an accepted call with the bare flush tag the record's flush flag
\* is true, and the flush step gives the same whatever the flag: it invokes
\* the strategy.  In an accepted call with a flush Binding the flag is the
\* boolean bound, and the strategy is invoked exactly when it is true.  In
\* an accepted call with neither the flag is false and the strategy is
\* never invoked.  So a finished call has invoked the strategy exactly when
\* its record's flag is true.  And whether a call with no flush argument is
\* accepted does not depend on the strategy: it is accepted or rejected as
\* it is with the strategy that fits every channel.
C23_FlushDecisionsAgree ==
  /\ Accepted
     => /\ BareFlush
           => /\ opts.flush = TRUE
              /\ print_flush(TRUE, TRUE, Flusher, TRUE, opts.file)
                   = print_flush(TRUE, TRUE, Flusher, FALSE, opts.file)
              /\ print_flush(TRUE, TRUE, Flusher, FALSE, opts.file).calls = 1
              /\ print_will_always_flush(args)
        /\ (FlushBinding /\ ~BareFlush)
           => /\ opts.flush = BoundFlush
              /\ ~print_will_always_flush(args) /\ print_can_possibly_flush(args)
        /\ (~FlushBinding /\ ~BareFlush)
           => /\ opts.flush = FALSE
              /\ ~print_can_possibly_flush(args)
              /\ flusherCalls = 0 /\ EventsOf("flush") = <<>>
        /\ Finished => (flusherCalls = 1 <=> opts.flush)
  /\ (pc \in {"done", "rejected"} /\ ~FlushBinding /\ ~BareFlush)
     => print_impl_3("dont_flush", entry, args).status = pc

\* print<flush_twice>(a, flush, file=custom) has finished: the flag true,
\* the strategy invoked
C23_Witness ==
  /\ Finished
  /\ Flusher = "flush_twice"
  /\ BareFlush
  /\ opts.file = "custom"
  /\ opts.flush = TRUE
  /\ flusherCalls = 1
  /\ Len(EventsOf("flush")) = 2

\* print(file=not_a_stream, end) has finished with the strategy that calls
\* flush(), which not_a_stream has not
C23_WitnessNotAStream ==
  /\ Finished
  /\ entry = "print" /\ Flusher = "print_flusher"
  /\ opts.file = "not_a_stream"
  /\ ~flusher_applies(Flusher, opts.file)
  /\ log = <<>>

\* a call with flush=false has finished without invoking the strategy
C23_WitnessFalse ==
  /\ Finished
  /\ FlushBinding /\ ~BoundFlush
  /\ flusherCalls = 0

\* a call with a flush argument on not_a_stream has been rejected
C23_WitnessRejected ==
  /\ pc = "rejected"
  /\ ~opts.ill_formed
  /\ opts.end = print_nothing /\ PrintablePositions = {}
  /\ opts.file = "not_a_stream"
  /\ BareFlush

==========================================================================
